---- MODULE Spec2Model ----
(***************************************************************************)
(* optionalyzer: Black-Scholes pricing (blackscholes.py), option contracts *)
(* with a price/Greeks cache (options.py) and the payoff chart portfolio   *)
(* (chart.py).                                                             *)
(*                                                                         *)
(* Floating point numbers are modelled in fixed point: a real x is the     *)
(* integer round(x * Q).  norm.cdf / norm.pdf are tabulated at steps of    *)
(* 0.1 and interpolated, np.log and np.exp are series, np.sqrt is the      *)
(* integer square root.  inf and the quotients by the 1e-10 stabiliser are *)
(* saturated at +-Huge.  The model is accurate to about 1e-3 of the        *)
(* underlying price, so the inputs stay within about one and a half        *)
(* standard deviations of the strike, where prices are larger than that.   *)
(***************************************************************************)
EXTENDS Integers, Sequences, FiniteSets, TLC

(***************************************************************************)
(* Fixed-point arithmetic                                                  *)
(***************************************************************************)
Q == 1000

Huge == 1000000000

Abs(x) == IF x < 0 THEN -x ELSE x

Sign(x) == IF x < 0 THEN -1 ELSE IF x > 0 THEN 1 ELSE 0

\* a / b rounded to the nearest integer (b > 0)
RDiv(a, b) == (2 * a + b) \div (2 * b)

\* the product of two fixed-point numbers
Mul(a, b) == RDiv(a * b, Q)

Clamp(x, bound) == IF x > bound THEN bound ELSE IF x < -bound THEN -bound ELSE x

RECURSIVE SqrtSearch(_, _, _)
SqrtSearch(n, lo, hi) ==
    IF hi - lo <= 1 THEN lo
    ELSE LET mid == (lo + hi) \div 2
         IN  IF mid * mid <= n THEN SqrtSearch(n, mid, hi)
                               ELSE SqrtSearch(n, lo, mid)

\* np.sqrt of a fixed-point number in [0, 4]
Sqrt(x) == SqrtSearch(x * Q, 0, 2 * Q + 1)

\* 2 atanh(y) = 2 (y + y^3/3 + y^5/5 + y^7/7), y2 being y squared
Atanh2(y, y2) ==
    2 * (y + Mul(y, RDiv(y2, 3) + Mul(y2, RDiv(y2, 5) + Mul(y2, RDiv(y2, 7)))))

\* np.log of a fixed-point number: 2 atanh((x-1)/(x+1)); np.log(0) is -inf
Log(x) ==
    IF x = 0 THEN -Huge
    ELSE Atanh2(RDiv((x - Q) * Q, x + Q),
                Mul(RDiv((x - Q) * Q, x + Q), RDiv((x - Q) * Q, x + Q)))

\* 1 - x + x^2/2 - x^3/6 + x^4/24, x2 being x squared
ExpSeries(x, x2) ==
    Q - x + RDiv(x2, 2) - RDiv(Mul(x2, x), 6) + RDiv(Mul(x2, x2), 24)

\* np.exp(-x) for a small fixed-point x >= 0
ExpNeg(x) == ExpSeries(x, Mul(x, x))

\* scipy.stats.norm.cdf at 0.0, 0.1, ..., 4.0
CdfTable ==
    << 500, 540, 579, 618, 655, 691, 726, 758, 788, 816,
       841, 864, 885, 903, 919, 933, 945, 955, 964, 971,
       977, 982, 986, 989, 992, 994, 995, 997, 997, 998,
       999, 999, 999, 1000, 1000, 1000, 1000, 1000, 1000, 1000, 1000 >>

\* scipy.stats.norm.pdf at 0.0, 0.1, ..., 4.0
PdfTable ==
    << 399, 397, 391, 381, 368, 352, 333, 312, 290, 266,
       242, 218, 194, 171, 150, 130, 111, 94, 79, 66,
       54, 44, 35, 28, 22, 18, 14, 10, 8, 6,
       4, 3, 2, 2, 1, 1, 1, 0, 0, 0, 0 >>

TableStep == 100

Interpolate(table, a) ==
    IF a >= (Len(table) - 1) * TableStep THEN table[Len(table)]
    ELSE LET i == a \div TableStep
             f == a % TableStep
         IN  table[i + 1] + RDiv((table[i + 2] - table[i + 1]) * f, TableStep)

norm_cdf(d) ==
    IF d >= 0 THEN Interpolate(CdfTable, d) ELSE Q - Interpolate(CdfTable, -d)

norm_pdf(d) == Interpolate(PdfTable, Abs(d))

\* x / (den + 1e-10): the stabiliser only matters when den is 0, and then
\* the quotient is x * 1e10
DivEps(x, den) ==
    IF den = 0 THEN Sign(x) * Huge ELSE RDiv(x * Q, den)

(***************************************************************************)
(* blackscholes.py: BlackScholes                                           *)
(***************************************************************************)
RISK_FREE_RATE == 70

\* np.log(S / K) is -inf when S / K is 0, and so is d1
d1(S, K, r, iv, tau) ==
    IF RDiv(S * Q, K) = 0 THEN -Huge
    ELSE DivEps(Log(RDiv(S * Q, K)) + Mul(r + RDiv(Mul(iv, iv), 2), tau),
                Mul(iv, Sqrt(tau)))

d2(S, K, r, iv, tau) ==
    Clamp(d1(S, K, r, iv, tau) - Mul(iv, Sqrt(tau)), Huge)

vega(S, K, r, iv, tau) ==
    Mul(Mul(S, Sqrt(tau)), norm_pdf(d1(S, K, r, iv, tau)))

call_delta(S, K, r, iv, tau) == norm_cdf(d1(S, K, r, iv, tau))

put_delta(S, K, r, iv, tau) == norm_cdf(d1(S, K, r, iv, tau)) - Q

call_theta(S, K, r, iv, tau) ==
    LET term_1 == DivEps(- Mul(Mul(S, iv), norm_pdf(d1(S, K, r, iv, tau))),
                         2 * Sqrt(tau))
        term_2 == Mul(Mul(Mul(r, K), ExpNeg(Mul(r, tau))),
                      norm_cdf(d2(S, K, r, iv, tau)))
    IN  Clamp(term_1 - term_2, Huge)

put_theta(S, K, r, iv, tau) ==
    LET term_1 == DivEps(- Mul(Mul(S, iv), norm_pdf(d1(S, K, r, iv, tau))),
                         2 * Sqrt(tau))
        term_2 == Mul(Mul(Mul(r, K), ExpNeg(Mul(r, tau))),
                      norm_cdf(- d2(S, K, r, iv, tau)))
    IN  Clamp(term_1 + term_2, Huge)

call_gamma(S, K, r, iv, tau) ==
    DivEps(norm_pdf(d1(S, K, r, iv, tau)), Mul(Mul(S, iv), Sqrt(tau)))

put_gamma(S, K, r, iv, tau) ==
    DivEps(norm_pdf(d1(S, K, r, iv, tau)), Mul(Mul(S, iv), Sqrt(tau)))

call_rho(S, K, r, iv, tau) ==
    Mul(Mul(Mul(K, tau), ExpNeg(Mul(r, tau))), norm_cdf(d2(S, K, r, iv, tau)))

put_rho(S, K, r, iv, tau) ==
    - Mul(Mul(Mul(K, tau), ExpNeg(Mul(r, tau))), norm_cdf(- d2(S, K, r, iv, tau)))

\* BlackScholes.call(S, K, r, iv, tau, greeks=True)
call(S, K, r, iv, tau) ==
    LET term_1 == Mul(S, norm_cdf(d1(S, K, r, iv, tau)))
        term_2 == Mul(Mul(K, ExpNeg(Mul(r, tau))), norm_cdf(d2(S, K, r, iv, tau)))
    IN  [price  |-> term_1 - term_2,
         greeks |-> [delta |-> call_delta(S, K, r, iv, tau),
                     gamma |-> call_gamma(S, K, r, iv, tau),
                     theta |-> call_theta(S, K, r, iv, tau),
                     vega  |-> vega(S, K, r, iv, tau),
                     rho   |-> call_rho(S, K, r, iv, tau)]]

\* a put priced with the probabilities of the call
put_unmirrored(S, K, r, iv, tau) ==
    LET term_1 == Mul(Mul(K, ExpNeg(Mul(r, tau))), norm_cdf(d2(S, K, r, iv, tau)))
        term_2 == Mul(S, norm_cdf(d1(S, K, r, iv, tau)))
    IN  [price  |-> term_1 - term_2,
         greeks |-> [delta |-> put_delta(S, K, r, iv, tau),
                     gamma |-> put_gamma(S, K, r, iv, tau),
                     theta |-> put_theta(S, K, r, iv, tau),
                     vega  |-> vega(S, K, r, iv, tau),
                     rho   |-> put_rho(S, K, r, iv, tau)]]

\* BlackScholes.put(S, K, r, iv, tau, greeks=True)
put(S, K, r, iv, tau) ==
    LET term_1 == Mul(Mul(K, ExpNeg(Mul(r, tau))), norm_cdf(- d2(S, K, r, iv, tau)))
        term_2 == Mul(S, norm_cdf(- d1(S, K, r, iv, tau)))
    IN  [price  |-> term_1 - term_2,
         greeks |-> [delta |-> put_delta(S, K, r, iv, tau),
                     gamma |-> put_gamma(S, K, r, iv, tau),
                     theta |-> put_theta(S, K, r, iv, tau),
                     vega  |-> vega(S, K, r, iv, tau),
                     rho   |-> put_rho(S, K, r, iv, tau)]]

(***************************************************************************)
(* Python values: None, str (a sequence of characters), datetime.date,     *)
(* float and numpy.ndarray (a sequence of floats)                          *)
(***************************************************************************)
None == [tag |-> "None"]

Str(chars) == [tag |-> "str", s |-> chars]

Date(y, m, d) == [tag |-> "date", year |-> y, month |-> m, day |-> d]

Float(v) == [tag |-> "float", v |-> v]

PyInt(v) == [tag |-> "int", v |-> v]

Array(vs) == [tag |-> "ndarray", v |-> vs]

\* the outcome of a call: the value returned, or the exception raised
Return(v) == [raised |-> "None", value |-> v]

Raise(e) == [raised |-> e, value |-> None]

(***************************************************************************)
(* datetime: strptime, date.toordinal and date subtraction                 *)
(***************************************************************************)
DigitChars == {"0", "1", "2", "3", "4", "5", "6", "7", "8", "9"}

DigitVal(c) ==
    CASE c = "0" -> 0 [] c = "1" -> 1 [] c = "2" -> 2 [] c = "3" -> 3
      [] c = "4" -> 4 [] c = "5" -> 5 [] c = "6" -> 6 [] c = "7" -> 7
      [] c = "8" -> 8 [] c = "9" -> 9

IsDigitAt(text, i) == i >= 1 /\ i <= Len(text) /\ text[i] \in DigitChars

\* the number written by the n digits of text that start at i
RECURSIVE NumberAt(_, _, _)
NumberAt(text, i, n) ==
    IF n = 0 THEN 0
    ELSE 10 * NumberAt(text, i, n - 1) + DigitVal(text[i + n - 1])

AllDigitsAt(text, i, n) == \A k \in i .. (i + n - 1) : IsDigitAt(text, k)

NoMatch == [ok |-> FALSE]

\* the regular expression strptime compiles the format into, matched against a
\* prefix of the text from position ti: %d is 3[0-1]|[1-2]\d|0[1-9]|[1-9],
\* %m is 1[0-2]|0[1-9]|[1-9], %Y is \d\d\d\d; alternatives are tried in order
RECURSIVE re_match(_, _, _, _, _)
re_match(fmt, text, fi, ti, found) ==
    IF fi > Len(fmt) THEN [ok |-> TRUE, end |-> ti, found |-> found]
    ELSE
      LET tok == fmt[fi]
          two == IF AllDigitsAt(text, ti, 2) THEN NumberAt(text, ti, 2) ELSE -1
          one == IF AllDigitsAt(text, ti, 1) THEN NumberAt(text, ti, 1) ELSE -1
      IN  IF tok = "%Y" THEN
            IF AllDigitsAt(text, ti, 4)
            THEN re_match(fmt, text, fi + 1, ti + 4,
                          [found EXCEPT !.year = NumberAt(text, ti, 4)])
            ELSE NoMatch
          ELSE IF tok = "%d" THEN
            LET long  == IF two >= 1 /\ two <= 31
                         THEN re_match(fmt, text, fi + 1, ti + 2,
                                       [found EXCEPT !.day = two])
                         ELSE NoMatch
                short == IF one >= 1
                         THEN re_match(fmt, text, fi + 1, ti + 1,
                                       [found EXCEPT !.day = one])
                         ELSE NoMatch
            IN  IF long.ok THEN long ELSE short
          ELSE IF tok = "%m" THEN
            LET long  == IF two >= 1 /\ two <= 12
                         THEN re_match(fmt, text, fi + 1, ti + 2,
                                       [found EXCEPT !.month = two])
                         ELSE NoMatch
                short == IF one >= 1
                         THEN re_match(fmt, text, fi + 1, ti + 1,
                                       [found EXCEPT !.month = one])
                         ELSE NoMatch
            IN  IF long.ok THEN long ELSE short
          ELSE IF ti <= Len(text) /\ text[ti] = tok
               THEN re_match(fmt, text, fi + 1, ti + 1, found)
               ELSE NoMatch

is_leap(year) == year % 4 = 0 /\ (year % 100 # 0 \/ year % 400 = 0)

days_in_month(year, month) ==
    IF month = 2 THEN (IF is_leap(year) THEN 29 ELSE 28)
    ELSE IF month \in {4, 6, 9, 11} THEN 30 ELSE 31

days_before_year(year) ==
    LET y == year - 1
    IN  y * 365 + (y \div 4) - (y \div 100) + (y \div 400)

RECURSIVE days_before_month(_, _)
days_before_month(year, month) ==
    IF month = 1 THEN 0
    ELSE days_before_month(year, month - 1) + days_in_month(year, month - 1)

toordinal(date) ==
    days_before_year(date.year) + days_before_month(date.year, date.month) + date.day

\* datetime.datetime.strptime(date_str, date_format).date()
strptime(date_str, date_format) ==
    LET m == re_match(date_format, date_str, 1, 1,
                      [year |-> 1900, month |-> 1, day |-> 1])
    IN  IF ~ m.ok THEN Raise("ValueError")
        ELSE IF m.end # Len(date_str) + 1 THEN Raise("ValueError")
        ELSE IF m.found.year < 1 THEN Raise("ValueError")
        ELSE IF m.found.day > days_in_month(m.found.year, m.found.month)
             THEN Raise("ValueError")
        ELSE Return(Date(m.found.year, m.found.month, m.found.day))

(***************************************************************************)
(* numpy broadcasting: a float stays a float, an ndarray is mapped         *)
(***************************************************************************)
Map1(f(_), a) ==
    IF a.tag = "ndarray" THEN Array([k \in 1 .. Len(a.v) |-> f(a.v[k])])
    ELSE Float(f(a.v))

Map2(f(_, _), a, b) ==
    IF a.tag = "ndarray" /\ b.tag = "ndarray"
    THEN Array([k \in 1 .. Len(a.v) |-> f(a.v[k], b.v[k])])
    ELSE IF a.tag = "ndarray"
    THEN Array([k \in 1 .. Len(a.v) |-> f(a.v[k], b.v)])
    ELSE IF b.tag = "ndarray"
    THEN Array([k \in 1 .. Len(b.v) |-> f(a.v, b.v[k])])
    ELSE Float(f(a.v, b.v))

Plus(a, b) == a + b

Minus(a, b) == a - b

Max0(a) == IF a > 0 THEN a ELSE 0

\* np.linspace(start, stop, num): evenly spaced, the last sample is stop
linspace(start, stop, num) ==
    Array([k \in 1 .. num |->
              IF k = num THEN stop
              ELSE start + RDiv((k - 1) * (stop - start), num - 1)])

\* np.round(x, 0): to the nearest integer, a half to the even one
np_round(x) ==
    LET floor == x \div Q
        rest  == x - floor * Q
    IN  IF 2 * rest < Q THEN floor * Q
        ELSE IF 2 * rest > Q THEN (floor + 1) * Q
        ELSE IF floor % 2 = 0 THEN floor * Q
        ELSE (floor + 1) * Q

\* bool(v): None is false, a non-empty dict is true, a number is true unless 0
truth(v) ==
    CASE v.tag = "None"  -> FALSE
      [] v.tag = "dict"  -> TRUE
      [] v.tag = "float" -> v.v # 0
      [] v.tag = "int"   -> v.v # 0
      [] OTHER           -> TRUE

(***************************************************************************)
(* The arguments the calls are made with                                   *)
(***************************************************************************)
MaxDays == 1

DMY == << "%d", "-", "%m", "-", "%Y" >>

YMD == << "%Y", "-", "%m", "-", "%d" >>

T_10_01_2023 == << "1", "0", "-", "0", "1", "-", "2", "0", "2", "3" >>

T_11_01_2023 == << "1", "1", "-", "0", "1", "-", "2", "0", "2", "3" >>

T_18_01_2023 == << "1", "8", "-", "0", "1", "-", "2", "0", "2", "3" >>

T_25_01_2023 == << "2", "5", "-", "0", "1", "-", "2", "0", "2", "3" >>

T_30_02_2023 == << "3", "0", "-", "0", "2", "-", "2", "0", "2", "3" >>

T_2023_01_18 == << "2", "0", "2", "3", "-", "0", "1", "-", "1", "8" >>

T_2023_31_01 == << "2", "0", "2", "3", "-", "3", "1", "-", "0", "1" >>

T_5_2_2023 == << "5", "-", "2", "-", "2", "0", "2", "3" >>

Classes == {"Call", "Put"}

Strikes == {111000}

Vols == {230}

Formats == {DMY, YMD}

ExpiryArgs ==
    {Str(T_10_01_2023), Str(T_18_01_2023), Str(T_2023_01_18), Str(T_30_02_2023)}

DateArgs ==
    {None, Str(T_18_01_2023), Str(T_25_01_2023), Str(T_2023_31_01),
     Str(T_5_2_2023)}

Spots == {Float(110000), Float(115000)}

\* the bounds of the portfolio: Position objects made, positions held
MaxPositions == 2

MaxHeld == 2

\* the positions of a portfolio that is priced
MaxLegs == 1

\* chart.py POINTS, the samples of the payoff curve (200 in chart.py)
POINTS == 4

LOT_SIZE == 50

T_call == << "c", "a", "l", "l" >>

T_Put == << "P", "u", "t" >>

T_swap == << "s", "w", "a", "p" >>

T_long == << "l", "o", "n", "g" >>

T_S == << "S" >>

T_buy == << "b", "u", "y" >>

ChartExpiryArgs == {Str(T_18_01_2023), Str(T_25_01_2023)}

\* the contracts of the portfolio that is priced: option_type, expiry_date
Legs ==
    {<< Str(T_call), Str(T_18_01_2023) >>, << Str(T_Put), Str(T_25_01_2023) >>}

ChartDateArgs == {None, Str(T_11_01_2023)}

SpotArgs == {Float(0 - 1000), Float(0), Float(110000), Float(115000)}

Ranges == {Float(0), Float(100)}

\* datetime.date.today() when chart.py was imported
TODAY == Date(2023, 1, 11)

tomorrow(date) ==
    IF date.day < days_in_month(date.year, date.month)
    THEN Date(date.year, date.month, date.day + 1)
    ELSE IF date.month < 12 THEN Date(date.year, date.month + 1, 1)
    ELSE Date(date.year + 1, 1, 1)

(***************************************************************************)
(* options.py: Options, Call, Put                                          *)
(***************************************************************************)
\* a parser that falls back on the other formats when the configured one fails
str_to_date_lenient(date_str, date_format) ==
    IF date_str.tag = "date" THEN Return(date_str)
    ELSE IF \E f \in Formats : strptime(date_str.s, f).raised = "None"
    THEN strptime(date_str.s,
                  CHOOSE f \in Formats : strptime(date_str.s, f).raised = "None")
    ELSE Raise("ValueError")

\* Options.__str_to_date
str_to_date(date_str, date_format) ==
    IF date_str.tag = "date" THEN Return(date_str)
    ELSE strptime(date_str.s, date_format)

\* (expiry_date - date).days / 365
years_between(expiry_date, date) ==
    RDiv((toordinal(expiry_date) - toordinal(date)) * Q, 365)

RECURSIVE days_after(_, _)
days_after(date, n) == IF n = 0 THEN date ELSE tomorrow(days_after(date, n - 1))

\* the dates the arguments can denote
Dates ==
    {str_to_date(a, f).value :
        a \in (ExpiryArgs \cup DateArgs \cup ChartExpiryArgs \cup ChartDateArgs)
                  \ {None},
        f \in Formats}
    \cup {days_after(TODAY, n) : n \in 0 .. MaxDays}

\* the spot prices payoff_chart samples around the reference spot prices
Sampled ==
    UNION {{linspace(a.v - Mul(b.v, a.v), a.v + Mul(b.v, a.v), POINTS).v[k] :
               k \in 1 .. POINTS} :
           a \in {x \in SpotArgs : x.v >= 0}, b \in Ranges}

\* BlackScholes.call and BlackScholes.put, evaluated once for each argument
\* the calls below can pass
Tabulated ==
    [cls \in Classes, S \in {a.v : a \in Spots} \cup Sampled, K \in Strikes,
     r \in {RISK_FREE_RATE}, iv \in Vols,
     tau \in {t \in {years_between(e, d) : e \in Dates \ {None},
                                           d \in Dates \ {None}} : t >= 0}
     |-> IF cls = "Call" THEN call(S, K, r, iv, tau) ELSE put(S, K, r, iv, tau)]

Greeks(g) ==
    [tag |-> "dict", delta |-> g.delta, gamma |-> g.gamma, theta |-> g.theta,
     vega |-> g.vega, rho |-> g.rho]

\* a pricing function on a float, or element by element on an ndarray
broadcast(F(_), S) ==
    IF S.tag = "ndarray"
    THEN LET rs == [k \in 1 .. Len(S.v) |-> F(S.v[k])]
             col(G(_)) == Array([k \in 1 .. Len(S.v) |-> G(rs[k])])
             Price(r) == r.price
             Delta(r) == r.greeks.delta
             Gamma(r) == r.greeks.gamma
             Theta(r) == r.greeks.theta
             Vega(r)  == r.greeks.vega
             Rho(r)   == r.greeks.rho
         IN  [price  |-> col(Price),
              greeks |-> Greeks([delta |-> col(Delta), gamma |-> col(Gamma),
                                 theta |-> col(Theta), vega |-> col(Vega),
                                 rho |-> col(Rho)])]
    ELSE LET r == F(S.v)
         IN  [price  |-> Float(r.price),
              greeks |-> Greeks([delta |-> Float(r.greeks.delta),
                                 gamma |-> Float(r.greeks.gamma),
                                 theta |-> Float(r.greeks.theta),
                                 vega  |-> Float(r.greeks.vega),
                                 rho   |-> Float(r.greeks.rho)])]

\* bs.call(S, K, r, iv, tau, greeks=True) and bs.put(S, K, r, sigma, tau,
\* greeks=True) on one spot price
bs_call_at(x, K, r, iv, tau) == Tabulated["Call", x, K, r, iv, tau]

bs_put_at(x, K, r, iv, tau) == Tabulated["Put", x, K, r, iv, tau]

\* bs.call(S, K, r, iv, tau, greeks=True)
bs_call(S, K, r, iv, tau) ==
    LET F(x) == bs_call_at(x, K, r, iv, tau) IN broadcast(F, S)

\* bs.put(S, K, r, sigma, tau, greeks=True)
bs_put(S, K, r, iv, tau) ==
    LET F(x) == bs_put_at(x, K, r, iv, tau) IN broadcast(F, S)

\* Options.__init__ followed by Call.__init__ / Put.__init__
Options_init(cls, strike_price, expiry_date, iv, date_format) ==
    LET date == str_to_date(expiry_date, date_format)
    IN  IF date.raised # "None" THEN Raise(date.raised)
        ELSE Return([cls |-> cls, strike_price |-> strike_price,
                     date_format |-> date_format, expiry_date |-> date.value,
                     iv |-> iv, price |-> None, greeks |-> None])

\* a _tau that also rejects the expiry date itself
tau_from_strict(self, d) ==
    IF d.raised # "None" THEN Raise(d.raised)
    ELSE IF years_between(self.expiry_date, d.value) <= 0
    THEN Raise("ValueError")
    ELSE Return(years_between(self.expiry_date, d.value))

\* Options._tau once date has been parsed: d is the date, or what the
\* parsing raised
tau_from(self, d) ==
    IF d.raised # "None" THEN Raise(d.raised)
    ELSE IF years_between(self.expiry_date, d.value) < 0
    THEN Raise("ValueError")
    ELSE Return(years_between(self.expiry_date, d.value))

\* Options._tau; now is datetime.date.today()
tau_of(self, date, now) ==
    tau_from(self, IF date.tag = "None" THEN Return(now)
                   ELSE str_to_date(date, self.date_format))

\* a cache that is filled once and never replaced
store_first(self, price, greeks) ==
    IF self.price = None THEN [self EXCEPT !.price = price, !.greeks = greeks]
    ELSE self

\* self.__price = price; self.__greeks = greeks
store(self, price, greeks) ==
    [self EXCEPT !.price = price, !.greeks = greeks]

\* the assignments and the return statement of calculate_price: out is what
\* bs.call or bs.put returned for tau
stored(self, tau, out, return_greeks) ==
    [self |-> store(self, out.price, out.greeks),
     raised |-> "None",
     value |-> IF return_greeks
               THEN [tag |-> "tuple", price |-> out.price, greeks |-> out.greeks]
               ELSE out.price,
     computed |-> [tag |-> "tuple", price |-> out.price, greeks |-> out.greeks],
     taus |-> << tau >>]

\* bs.call for a Call, bs.put for a Put
bs_price(self, spot_price, tau) ==
    IF self.cls = "Call"
    THEN bs_call(spot_price, self.strike_price, RISK_FREE_RATE, self.iv, tau)
    ELSE bs_put(spot_price, self.strike_price, RISK_FREE_RATE, self.iv, tau)

\* a calculate_price that empties the cache when the date is rejected
priced_at_reset(self, spot_price, return_greeks, tau) ==
    IF tau.raised # "None"
    THEN [self |-> [self EXCEPT !.price = None, !.greeks = None],
          raised |-> tau.raised, value |-> None,
          computed |-> None, taus |-> << >>]
    ELSE stored(self, tau.value, bs_price(self, spot_price, tau.value),
                return_greeks)

\* calculate_price once self._tau(date) has returned or raised tau
priced_at(self, spot_price, return_greeks, tau) ==
    IF tau.raised # "None"
    THEN [self |-> self, raised |-> tau.raised, value |-> None,
          computed |-> None, taus |-> << >>]
    ELSE stored(self, tau.value, bs_price(self, spot_price, tau.value),
                return_greeks)

\* Call.calculate_price / Put.calculate_price: the option after the call, what
\* the call raised or returned, the price and Greeks it computed and the tau
\* values it handed to BlackScholes
calculate_price(self, spot_price, date, return_greeks, now) ==
    priced_at(self, spot_price, return_greeks, tau_of(self, date, now))

\* Call.greeks / Put.greeks
greeks(self) ==
    IF ~ truth(self.greeks) THEN Raise("ValueError") ELSE Return(self.greeks)

\* a get_price without the guard
get_price_unguarded(self) == Return(self.price)

\* Call.get_price / Put.get_price
get_price(self) ==
    IF self.price = None THEN Raise("ValueError") ELSE Return(self.price)

\* Call.intrinsic_value / Put.intrinsic_value
intrinsic_value(self, spot_price) ==
    LET C(x) == Max0(x - self.strike_price)
        P(x) == Max0(self.strike_price - x)
    IN  IF self.cls = "Call" THEN Map1(C, spot_price) ELSE Map1(P, spot_price)

\* Call.time_value / Put.time_value
time_value(self, spot_price) ==
    IF self.price = None THEN Raise("ValueError")
    ELSE Return(Map2(Minus, self.price, intrinsic_value(self, spot_price)))

(***************************************************************************)
(* chart.py: Position.  Objects are referred to by their place among the   *)
(* objects made so far; a list is a fresh list of values, or the very list *)
(* object the chart keeps as self.positions                                *)
(***************************************************************************)
OptionsRef(id) == [tag |-> "Options", id |-> id]

PositionRef(id) == [tag |-> "Position", id |-> id]

List(v) == [tag |-> "list", held |-> FALSE, v |-> v]

HeldList == [tag |-> "list", held |-> TRUE, v |-> << >>]

UpperCase ==
    << "A", "B", "C", "D", "E", "F", "G", "H", "I", "J", "K", "L", "M",
       "N", "O", "P", "Q", "R", "S", "T", "U", "V", "W", "X", "Y", "Z" >>

LowerCase ==
    << "a", "b", "c", "d", "e", "f", "g", "h", "i", "j", "k", "l", "m",
       "n", "o", "p", "q", "r", "s", "t", "u", "v", "w", "x", "y", "z" >>

\* str.lower()
lower(chars) ==
    [k \in 1 .. Len(chars) |->
        IF \E j \in 1 .. 26 : UpperCase[j] = chars[k]
        THEN LowerCase[CHOOSE j \in 1 .. 26 : UpperCase[j] = chars[k]]
        ELSE chars[k]]

\* Position.__resolve_option
resolve_option(option) ==
    IF option.tag # "Options" THEN Raise("ValueError") ELSE Return(option)

\* Position.__resolve_position_type: no branch for any other string, the
\* method falls off its end and returns None
resolve_position_type(position_type) ==
    IF lower(position_type.s) \in {<< "s", "h", "o", "r", "t" >>, << "s" >>}
    THEN PyInt(0 - 1)
    ELSE IF lower(position_type.s) \in {<< "l", "o", "n", "g" >>, << "l" >>}
    THEN PyInt(1)
    ELSE None

\* Position.__init__
Position_init(option, position_type) ==
    LET o == resolve_option(option)
    IN  IF o.raised # "None" THEN Raise(o.raised)
        ELSE Return([option |-> o.value.id,
                     type |-> resolve_position_type(position_type)])

(***************************************************************************)
(* chart.py: PayoffChart.  self is the chart together with the objects it  *)
(* reaches: [options, returned, positions, chart]                          *)
(***************************************************************************)
\* the elements of a list argument when the loop reads them
items(self, positions) ==
    IF positions.held
    THEN [k \in 1 .. Len(self.chart.positions) |->
             PositionRef(self.chart.positions[k])]
    ELSE positions.v

\* PayoffChart.__resolve_positions
resolve_positions(self, positions) ==
    IF positions.tag # "list" THEN Raise("ValueError")
    ELSE IF \E k \in 1 .. Len(items(self, positions)) :
               items(self, positions)[k].tag # "Position"
    THEN Raise("ValueError")
    ELSE Return(positions)

\* a setter that stores whatever it is given
set_spot_price_unchecked(self, spot_price) ==
    [self |-> [self EXCEPT !.chart.spot_price = spot_price], raised |-> "None"]

\* PayoffChart.set_spot_price
set_spot_price(self, spot_price) ==
    IF spot_price.v < 0 THEN [self |-> self, raised |-> "ValueError"]
    ELSE [self |-> [self EXCEPT !.chart.spot_price = spot_price],
          raised |-> "None"]

\* PayoffChart.__init__
PayoffChart_init(self, positions, spot_price) ==
    LET resolved == resolve_positions(self, positions)
        made == [self EXCEPT !.chart =
                    [positions |-> [k \in 1 .. Len(positions.v) |->
                                       positions.v[k].id],
                     spot_price |-> None]]
    IN  IF resolved.raised # "None"
        THEN [self |-> self, raised |-> resolved.raised]
        ELSE IF set_spot_price(made, spot_price).raised # "None"
        THEN [self |-> self, raised |-> set_spot_price(made, spot_price).raised]
        ELSE set_spot_price(made, spot_price)

\* PayoffChart.create_position
create_position(self, strike_price, expiry_date, iv, option_type, position_type, date_format, add) ==
    LET kind == lower(option_type.s)
        option == Options_init(IF kind = << "c", "a", "l", "l" >>
                               THEN "Call" ELSE "Put",
                               strike_price, expiry_date, iv, date_format)
        pos == Position_init(OptionsRef(Len(self.options) + 1), position_type)
        made == [self EXCEPT !.options = Append(@, option.value),
                             !.returned = Append(@, None)]
        kept == [made EXCEPT !.positions = Append(@, pos.value)]
    IN  IF kind \notin {<< "c", "a", "l", "l" >>, << "p", "u", "t" >>}
        THEN [self |-> self, raised |-> "ValueError", value |-> None]
        ELSE IF option.raised # "None"
        THEN [self |-> self, raised |-> option.raised, value |-> None]
        ELSE IF pos.raised # "None"
        THEN [self |-> made, raised |-> pos.raised, value |-> None]
        ELSE [self |-> IF add
                       THEN [kept EXCEPT !.chart.positions =
                                Append(@, Len(kept.positions))]
                       ELSE kept,
              raised |-> "None",
              value |-> PositionRef(Len(kept.positions))]

\* the least of the lengths: zip stops at the end of the shortest list
zipped(strike_prices, expiry_dates, ivs, option_types, position_types) ==
    CHOOSE n \in 0 .. Len(strike_prices) :
        /\ n <= Len(expiry_dates) /\ n <= Len(ivs)
        /\ n <= Len(option_types) /\ n <= Len(position_types)
        /\ \/ n = Len(strike_prices) \/ n = Len(expiry_dates) \/ n = Len(ivs)
           \/ n = Len(option_types) \/ n = Len(position_types)

RECURSIVE create_from(_, _, _, _, _, _, _, _, _, _)

\* the body of the for loop of create_positions once create_position has
\* returned or raised position
create_with(self, strike_prices, expiry_dates, ivs, option_types, position_types, date_format, add, k, positions, position) ==
    IF position.raised # "None"
    THEN [self |-> position.self, raised |-> position.raised, value |-> None]
    ELSE create_from(position.self, strike_prices, expiry_dates, ivs,
                     option_types, position_types, date_format, add, k + 1,
                     Append(positions, position.value))

\* the for loop of create_positions, about to create the k-th position
create_from(self, strike_prices, expiry_dates, ivs, option_types, position_types, date_format, add, k, positions) ==
    IF k > zipped(strike_prices, expiry_dates, ivs, option_types, position_types)
    THEN [self |-> self, raised |-> "None", value |-> List(positions)]
    ELSE create_with(self, strike_prices, expiry_dates, ivs, option_types,
                     position_types, date_format, add, k, positions,
                     create_position(self, strike_prices[k], expiry_dates[k],
                                     ivs[k], option_types[k],
                                     position_types[k], date_format, add))

\* PayoffChart.create_positions
create_positions(self, strike_prices, expiry_dates, ivs, option_types, position_types, date_format, add) ==
    create_from(self, strike_prices, expiry_dates, ivs, option_types,
                position_types, date_format, add, 1, << >>)

\* PayoffChart.add_positions
add_positions(self, positions) ==
    LET resolved == resolve_positions(self, positions)
        ids == [k \in 1 .. Len(items(self, positions)) |->
                   items(self, positions)[k].id]
    IN  IF resolved.raised # "None"
        THEN [self |-> self, raised |-> resolved.raised]
        ELSE [self |-> [self EXCEPT !.chart.positions = @ \o ids],
              raised |-> "None"]

\* position in self.positions
contains(held, position) == \E j \in 1 .. Len(held) : held[j] = position

\* list.remove(x): the first element equal to x goes
list_remove(held, position) ==
    LET j == CHOOSE j \in 1 .. Len(held) :
                 /\ held[j] = position
                 /\ \A i \in 1 .. j - 1 : held[i] # position
    IN  SubSeq(held, 1, j - 1) \o SubSeq(held, j + 1, Len(held))

\* the for loop of remove_positions, about to read element k of the list
RECURSIVE remove_from(_, _, _)
remove_from(self, positions, k) ==
    IF k > Len(items(self, positions)) THEN self
    ELSE LET position == items(self, positions)[k].id
         IN  remove_from(IF contains(self.chart.positions, position)
                         THEN [self EXCEPT !.chart.positions =
                                  list_remove(@, position)]
                         ELSE self,
                         positions, k + 1)

\* PayoffChart.remove_positions
remove_positions(self, positions) ==
    LET resolved == resolve_positions(self, positions)
    IN  IF resolved.raised # "None"
        THEN [self |-> self, raised |-> resolved.raised]
        ELSE [self |-> remove_from(self, positions, 1), raised |-> "None"]

\* a signed price that forgets the direction of the position
correct_price_unsigned(price, position) ==
    IF position.type = None THEN Raise("TypeError") ELSE Return(price)

\* PayoffChart.__correct_price: price * position._type
correct_price(price, position) ==
    LET signed(x) == x * position.type.v
    IN  IF position.type = None THEN Raise("TypeError")
        ELSE Return(Map1(signed, price))

\* a __calc_premium that prices a copy of the contract: the contract keeps
\* the price it had
premium_of_copy(self, position, priced) ==
    LET signed == correct_price(priced.value, self.positions[position])
    IN  IF priced.raised # "None"
        THEN [self |-> self, raised |-> priced.raised, value |-> None]
        ELSE [self |-> self, raised |-> signed.raised,
              value |-> IF signed.raised # "None" THEN None ELSE signed.value]

\* PayoffChart.__calc_premium once calculate_price has returned or raised
\* priced
premium_of(self, position, priced) ==
    LET option == self.positions[position].option
        signed == correct_price(priced.value, self.positions[position])
    IN  IF priced.raised # "None"
        THEN [self |-> self, raised |-> priced.raised, value |-> None]
        ELSE [self |-> [self EXCEPT !.options[option] = priced.self,
                                    !.returned[option] = priced.computed],
              raised |-> signed.raised,
              value |-> IF signed.raised # "None" THEN None ELSE signed.value]

\* PayoffChart.__calc_premium; position is the place of the Position object
calc_premium(self, spot_price, position, date, now) ==
    premium_of(self, position,
               calculate_price(self.options[self.positions[position].option],
                               spot_price, date, FALSE, now))

RECURSIVE total_from(_, _, _, _, _, _)

\* the body of the for loop of total_premium once __calc_premium has
\* returned or raised pos_pnl
total_with(self, spot_price, date, now, i, t_p, pos_pnl) ==
    IF pos_pnl.raised # "None" THEN pos_pnl
    ELSE total_from(pos_pnl.self, spot_price, date, now, i + 1,
                    Map2(Plus, t_p, pos_pnl.value))

\* the for loop of total_premium, about to price self.positions[i]
total_from(self, spot_price, date, now, i, t_p) ==
    IF i > Len(self.chart.positions)
    THEN [self |-> self, raised |-> "None", value |-> t_p]
    ELSE total_with(self, spot_price, date, now, i, t_p,
                    calc_premium(self, spot_price, self.chart.positions[i],
                                 date, now))

\* PayoffChart.total_premium
total_premium(self, spot_price, date, now) ==
    total_from(self, spot_price, date, now, 1, PyInt(0))

\* a premium paid that is priced one day after TODAY
premium_paid_late(self, spot_price, now) ==
    total_premium(self, spot_price, tomorrow(TODAY), now)

\* PayoffChart.__premium_paid
premium_paid(self, spot_price, now) ==
    total_premium(self, spot_price, TODAY, now)

\* the expiry dates of the positions held, in the order they are held
expiries_of(self) ==
    [k \in 1 .. Len(self.chart.positions) |->
        self.options[self.positions[self.chart.positions[k]].option].expiry_date]

\* a nearest expiry that is the expiry of the first position held
min_expiry_first(self) ==
    IF expiries_of(self) = << >> THEN Raise("ValueError")
    ELSE Return(expiries_of(self)[1])

\* PayoffChart.__min_expiry: min() of an empty list raises ValueError
min_expiry(self) ==
    LET expiries == {expiries_of(self)[k] : k \in 1 .. Len(expiries_of(self))}
    IN  IF expiries = {} THEN Raise("ValueError")
        ELSE Return(CHOOSE d \in expiries :
                        \A e \in expiries : toordinal(d) <= toordinal(e))

\* np.round(pnl * LOT_SIZE, 0): scaled first, rounded after
lots_scaled_first(pnl) ==
    LET rounded(x) == np_round(x * LOT_SIZE) IN Map1(rounded, pnl)

\* np.round(pnl, 0) * LOT_SIZE
lots(pnl) ==
    LET scaled(x) == np_round(x) * LOT_SIZE IN Map1(scaled, pnl)

\* a[np.argwhere(keep)].flatten()
RECURSIVE masked(_, _, _)
masked(a, keep, k) ==
    IF k > Len(a) THEN << >>
    ELSE (IF keep[k] THEN << a[k] >> ELSE << >>) \o masked(a, keep, k + 1)

\* go.Figure() with the four traces of payoff_chart
Figure(Ss, pnl, pnl_at_expiry) ==
    LET pv == [k \in 1 .. Len(pnl.v) |-> pnl.v[k] >= 0]
        ng == [k \in 1 .. Len(pnl.v) |-> pnl.v[k] < 0]
    IN  [tag |-> "Figure",
         pv_S |-> masked(Ss.v, pv, 1), pv_pnl |-> masked(pnl.v, pv, 1),
         ng_S |-> masked(Ss.v, ng, 1), ng_pnl |-> masked(pnl.v, ng, 1),
         Ss |-> Ss.v, pnl |-> pnl.v, pnl_at_expiry |-> pnl_at_expiry.v]

\* what payoff_chart hands back when it stops at an exception
stopped(self, raised) ==
    [self |-> self, raised |-> raised, value |-> None, locals |-> None]

\* what payoff_chart hands back when it stops at an exception after it has
\* found the nearest expiry
halted(self, raised, first) ==
    [self |-> self, raised |-> raised, value |-> None,
     locals |-> [min_expiry |-> first]]

\* the end of payoff_chart: the three premiums are priced
drawn(Ss, on, first, paid, premium_recieved_at_T, premium_at_expiry, return_fig) ==
    LET unrounded == Map2(Minus, premium_recieved_at_T.value, paid.value)
        at_expiry == Map2(Minus, premium_at_expiry.value, paid.value)
        fig == Figure(Ss, lots(unrounded), lots(at_expiry))
    IN  IF premium_at_expiry.raised # "None"
        THEN halted(premium_at_expiry.self, premium_at_expiry.raised, first)
        ELSE [self |-> premium_at_expiry.self, raised |-> "None",
              value |-> IF return_fig THEN fig ELSE Ss,
              locals |-> [date |-> on, min_expiry |-> first, Ss |-> Ss,
                          premium_paid |-> paid.value,
                          unrounded |-> unrounded, at_expiry |-> at_expiry,
                          fig |-> fig]]

\* payoff_chart from self.total_premium(Ss, date) on
drawn_at(Ss, on, first, paid, premium_recieved_at_T, return_fig, now) ==
    IF premium_recieved_at_T.raised # "None"
    THEN halted(premium_recieved_at_T.self, premium_recieved_at_T.raised,
                first)
    ELSE drawn(Ss, on, first, paid, premium_recieved_at_T,
               total_premium(premium_recieved_at_T.self, Ss, first, now),
               return_fig)

\* payoff_chart from self.__premium_paid(self.spot_price) on
drawn_from(Ss, on, first, paid, return_fig, now) ==
    IF paid.raised # "None" THEN halted(paid.self, paid.raised, first)
    ELSE drawn_at(Ss, on, first, paid, total_premium(paid.self, Ss, on, now),
                  return_fig, now)

\* PayoffChart.payoff_chart
payoff_chart(self, date, range, new_spot_price, return_fig, now) ==
    LET set == IF truth(new_spot_price)
               THEN set_spot_price(self, new_spot_price)
               ELSE [self |-> self, raised |-> "None"]
        first == min_expiry(set.self)
        on == IF date = None THEN first.value ELSE date
        spot == set.self.chart.spot_price
        Ss == linspace(spot.v - Mul(range.v, spot.v),
                       spot.v + Mul(range.v, spot.v), POINTS)
    IN  IF set.raised # "None" THEN stopped(set.self, set.raised)
        ELSE IF first.raised # "None" THEN stopped(set.self, first.raised)
        ELSE drawn_from(Ss, on, first.value,
                        premium_paid(set.self, spot, now), return_fig, now)

(***************************************************************************)
(* blackscholes.py: BlackScholes.implied_volatility.  scipy's minimize is   *)
(* taken as it is used: it evaluates the function at the start and at the   *)
(* points it chooses to try, and hands back the best point it saw together  *)
(* with its own verdict on convergence                                      *)
(***************************************************************************)
T_put == << "p", "u", "t" >>

\* the most points the minimizer tries after the start
MaxProbes == 2

\* the volatilities the minimizer can try
IvGrid == {100, 300}

\* the sequences of at most n elements of S
RECURSIVE SeqsUpTo(_, _)
SeqsUpTo(S, n) ==
    IF n = 0 THEN {<< >>}
    ELSE SeqsUpTo(S, n - 1)
         \cup {Append(q, x) : q \in {t \in SeqsUpTo(S, n - 1) : Len(t) = n - 1},
                               x \in S}

Probes == SeqsUpTo(IvGrid, MaxProbes)

PricingSpots == {100000, 110000, 111000, 115000, 125000}

PricingRates == {0, RISK_FREE_RATE}

PricingVols == {100, 230, 500}

PricingTaus == {3, 19, 250, 1000}

OptionPrices == {500, 1500, 6000}

OptionTypes == {Str(T_call), Str(T_put), Str(T_Put), Str(T_swap)}

\* option(iv=iv, S=S, K=K, r=r, tau=tau, greeks=False), option being
\* self.call or self.put
option_partial(option_type, S, K, r, tau, iv) ==
    IF option_type.s = T_call THEN call(S, K, r, iv, tau).price
    ELSE put(S, K, r, iv, tau).price

\* np.square(option_partial(iv) - option_price)
error(option_price, option_type, S, K, r, tau, iv) ==
    Mul(option_partial(option_type, S, K, r, tau, iv) - option_price,
        option_partial(option_type, S, K, r, tau, iv) - option_price)

\* the first place of the least value
argmin(values) ==
    CHOOSE i \in 1 .. Len(values) :
        /\ \A j \in 1 .. Len(values) : values[i] <= values[j]
        /\ \A j \in 1 .. i - 1 : values[j] > values[i]

\* minimize(error, 0.2): xs are the points at which it evaluated error, values
\* what error returned there, success its verdict
minimize(xs, values, success) ==
    [x |-> << xs[argmin(values)] >>, fun |-> values[argmin(values)],
     success |-> success, evals |-> xs]

\* what implied_volatility prints
report(verbose, res) ==
    IF ~ truth(verbose) THEN << >>
    ELSE IF res.success THEN << "Optimized Successfully!" >>
    ELSE << "Optimization Unsuccessful. Here is the final result." >>

\* implied_volatility from res = minimize(error, 0.2) on
estimated(verbose, res) ==
    [raised |-> "None", value |-> Float(res.x[1]), evals |-> res.evals,
     started |-> TRUE, printed |-> report(verbose, res), res |-> res]

\* the minimization of implied_volatility: probes are the points the
\* minimizer tries after 0.2
minimized(option_price, S, K, r, tau, option_type, probes, success) ==
    minimize(<< 200 >> \o probes,
             [k \in 1 .. Len(probes) + 1 |->
                 error(option_price, option_type, S, K, r, tau,
                       (<< 200 >> \o probes)[k])],
             success)

\* an implied_volatility that looks at option_type after it has minimized
implied_volatility_late(option_price, S, K, r, tau, option_type, verbose, probes, success) ==
    IF option_type.s \notin {T_call, T_put}
    THEN [raised |-> "ValueError", value |-> None,
          evals |-> << 200 >> \o probes, started |-> TRUE, printed |-> << >>,
          res |-> None]
    ELSE estimated(verbose, minimized(option_price, S, K, r, tau, option_type,
                                      probes, success))

\* BlackScholes.implied_volatility
implied_volatility(option_price, S, K, r, tau, option_type, verbose, probes, success) ==
    IF option_type.s \notin {T_call, T_put}
    THEN [raised |-> "ValueError", value |-> None, evals |-> << >>,
          started |-> FALSE, printed |-> << >>, res |-> None]
    ELSE estimated(verbose, minimized(option_price, S, K, r, tau, option_type,
                                      probes, success))

(***************************************************************************)
(* State                                                                   *)
(***************************************************************************)
VARIABLES
    options,    \* the Call and Put objects constructed so far
    returned,   \* per option: what its last successful calculate_price computed
    positions,  \* the Position objects constructed so far
    chart,      \* the PayoffChart, None before it is constructed
    today,      \* datetime.date.today()
    ret         \* the last call: its arguments and what it raised or returned

vars == << options, returned, positions, chart, today, ret >>

NoCall == [op |-> "None", self |-> 0, args |-> << >>, raised |-> "None",
           value |-> None, taus |-> << >>]

Init ==
    /\ options = << >>
    /\ returned = << >>
    /\ positions = << >>
    /\ chart = None
    /\ today = TODAY
    /\ ret = NoCall

(***************************************************************************)
(* The clock                                                               *)
(***************************************************************************)
Midnight ==
    /\ toordinal(today) - toordinal(TODAY) < MaxDays
    /\ today' = tomorrow(today)
    /\ UNCHANGED << options, returned, positions, chart, ret >>

(***************************************************************************)
(* Calls on a Call or Put                                                  *)
(***************************************************************************)
\* Call(strike_price, expiry_date, iv, date_format) and the same for Put
NewOption(cls, strike_price, expiry_date, iv, date_format) ==
    LET new == Options_init(cls, strike_price, expiry_date, iv, date_format)
    IN  /\ options = << >>
        /\ IF new.raised # "None"
           THEN UNCHANGED << options, returned >>
           ELSE /\ options' = Append(options, new.value)
                /\ returned' = Append(returned, None)
        /\ ret' = [op |-> cls, self |-> 0,
                   args |-> [expiry_date |-> expiry_date,
                             date_format |-> date_format],
                   raised |-> new.raised,
                   value |-> IF new.raised # "None" THEN None ELSE new.value,
                   taus |-> << >>]
        /\ UNCHANGED << positions, chart, today >>

CalculatePrice(i, spot_price, date, return_greeks) ==
    \E r \in {calculate_price(options[i], spot_price, date, return_greeks,
                              today)} :
        /\ options' = [options EXCEPT ![i] = r.self]
        /\ returned' = IF r.raised # "None" THEN returned
                       ELSE [returned EXCEPT ![i] = r.computed]
        /\ ret' = [op |-> "calculate_price", self |-> i,
                   args |-> [spot_price |-> spot_price, date |-> date,
                             return_greeks |-> return_greeks],
                   raised |-> r.raised, value |-> r.value, taus |-> r.taus]
        /\ UNCHANGED << positions, chart, today >>

GetGreeks(i) ==
    LET r == greeks(options[i])
    IN  /\ ret' = [op |-> "greeks", self |-> i, args |-> << >>,
                   raised |-> r.raised, value |-> r.value, taus |-> << >>]
        /\ UNCHANGED << options, returned, positions, chart, today >>

GetPrice(i) ==
    LET r == get_price(options[i])
    IN  /\ ret' = [op |-> "get_price", self |-> i, args |-> << >>,
                   raised |-> r.raised, value |-> r.value, taus |-> << >>]
        /\ UNCHANGED << options, returned, positions, chart, today >>

IntrinsicValue(i, spot_price) ==
    /\ ret' = [op |-> "intrinsic_value", self |-> i,
               args |-> [spot_price |-> spot_price], raised |-> "None",
               value |-> intrinsic_value(options[i], spot_price),
               taus |-> << >>]
    /\ UNCHANGED << options, returned, positions, chart, today >>

TimeValue(i, spot_price) ==
    LET r == time_value(options[i], spot_price)
    IN  /\ ret' = [op |-> "time_value", self |-> i,
                   args |-> [spot_price |-> spot_price],
                   raised |-> r.raised, value |-> r.value, taus |-> << >>]
        /\ UNCHANGED << options, returned, positions, chart, today >>

ContractNext ==
    \/ \E cls \in Classes, strike_price \in Strikes, expiry_date \in ExpiryArgs,
          iv \in Vols, date_format \in Formats :
          NewOption(cls, strike_price, expiry_date, iv, date_format)
    \/ \E i \in 1 .. Len(options), spot_price \in Spots, date \in DateArgs,
          return_greeks \in BOOLEAN :
          CalculatePrice(i, spot_price, date, return_greeks)
    \/ \E i \in 1 .. Len(options) : GetGreeks(i)
    \/ \E i \in 1 .. Len(options) : GetPrice(i)
    \/ \E i \in 1 .. Len(options), spot_price \in Spots :
          IntrinsicValue(i, spot_price)
    \/ \E i \in 1 .. Len(options), spot_price \in Spots :
          TimeValue(i, spot_price)
    \/ Midnight

\* one contract, its construction and every call on it, as the days pass;
\* contracts share no state, so one of them stands for each
SpecContract == Init /\ [][ContractNext]_vars

(***************************************************************************)
(* Calls on a Position and on the PayoffChart                              *)
(***************************************************************************)
World ==
    [options |-> options, returned |-> returned, positions |-> positions,
     chart |-> chart]

\* the next state holds the objects of self
Becomes(self) ==
    /\ options' = self.options
    /\ returned' = self.returned
    /\ positions' = self.positions
    /\ chart' = self.chart

\* Position(option, position_type)
NewPosition(option, position_type) ==
    \E new \in {Position_init(option, position_type)} :
        /\ Len(positions) < MaxPositions
        /\ positions' = IF new.raised # "None" THEN positions
                        ELSE Append(positions, new.value)
        /\ ret' = [op |-> "Position", self |-> 0,
                   args |-> [option |-> option, position_type |-> position_type],
                   raised |-> new.raised,
                   value |-> IF new.raised # "None" THEN None
                             ELSE PositionRef(Len(positions) + 1),
                   taus |-> << >>]
        /\ UNCHANGED << options, returned, chart, today >>

\* PayoffChart(positions, spot_price)
NewChart(positions_, spot_price) ==
    \E new \in {PayoffChart_init(World, positions_, spot_price)} :
        /\ chart = None
        /\ Becomes(new.self)
        /\ ret' = [op |-> "PayoffChart", self |-> 0,
                   args |-> [positions |-> positions_,
                             spot_price |-> spot_price],
                   raised |-> new.raised, value |-> None, taus |-> << >>]
        /\ UNCHANGED today

SetSpotPrice(spot_price) ==
    /\ chart # None
    /\ \E r \in {set_spot_price(World, spot_price)} :
        /\ Becomes(r.self)
        /\ ret' = [op |-> "set_spot_price", self |-> 0,
                   args |-> [spot_price |-> spot_price],
                   raised |-> r.raised, value |-> None, taus |-> << >>]
        /\ UNCHANGED today

CreatePosition(strike_price, expiry_date, iv, option_type, position_type, date_format, add) ==
    /\ chart # None
    /\ \E r \in {create_position(World, strike_price, expiry_date, iv, option_type,
                             position_type, date_format, add)} :
        /\ Len(positions) < MaxPositions
        /\ add => Len(chart.positions) < MaxHeld
        /\ Becomes(r.self)
        /\ ret' = [op |-> "create_position", self |-> 0,
                   args |-> [expiry_date |-> expiry_date,
                             option_type |-> option_type,
                             position_type |-> position_type,
                             date_format |-> date_format, add |-> add],
                   raised |-> r.raised, value |-> r.value, taus |-> << >>]
        /\ UNCHANGED today

CreatePositions(strike_prices, expiry_dates, ivs, option_types, position_types, date_format, add) ==
    /\ chart # None
    /\ \E r \in {create_positions(World, strike_prices, expiry_dates, ivs,
                                  option_types, position_types, date_format,
                                  add)} :
        /\ Len(r.self.positions) <= MaxPositions
        /\ Len(r.self.chart.positions) <= MaxHeld
        /\ Becomes(r.self)
        /\ ret' = [op |-> "create_positions", self |-> 0,
                   args |-> [expiry_dates |-> expiry_dates,
                             option_types |-> option_types,
                             position_types |-> position_types,
                             date_format |-> date_format, add |-> add],
                   raised |-> r.raised, value |-> r.value, taus |-> << >>]
        /\ UNCHANGED today

AddPositions(positions_) ==
    /\ chart # None
    /\ \E r \in {add_positions(World, positions_)} :
        /\ Len(r.self.chart.positions) <= MaxHeld
        /\ Becomes(r.self)
        /\ ret' = [op |-> "add_positions", self |-> 0,
                   args |-> [positions |-> positions_],
                   raised |-> r.raised, value |-> None, taus |-> << >>]
        /\ UNCHANGED today

RemovePositions(positions_) ==
    /\ chart # None
    /\ \E r \in {remove_positions(World, positions_)} :
        /\ Becomes(r.self)
        /\ ret' = [op |-> "remove_positions", self |-> 0,
                   args |-> [positions |-> positions_],
                   raised |-> r.raised, value |-> None, taus |-> << >>]
        /\ UNCHANGED today

TotalPremium(spot_price, date) ==
    /\ chart # None
    /\ \E r \in {total_premium(World, spot_price, date, today)} :
        /\ Becomes(r.self)
        /\ ret' = [op |-> "total_premium", self |-> 0,
                   args |-> [spot_price |-> spot_price, date |-> date],
                   raised |-> r.raised, value |-> r.value, taus |-> << >>]
        /\ UNCHANGED today

DrawPayoffChart(date, range, new_spot_price, return_fig) ==
    /\ chart # None
    /\ \E r \in {payoff_chart(World, date, range, new_spot_price, return_fig, today)} :
        /\ Becomes(r.self)
        /\ ret' = [op |-> "payoff_chart", self |-> 0,
                   args |-> [date |-> date, range |-> range,
                             new_spot_price |-> new_spot_price,
                             return_fig |-> return_fig],
                   raised |-> r.raised, value |-> r.value, taus |-> << >>,
                   locals |-> r.locals]
        /\ UNCHANGED today

(***************************************************************************)
(* Calls on a BlackScholes                                                 *)
(***************************************************************************)
\* BlackScholes().call(S, K, r, iv, tau)
BsCall(S, K, r, iv, tau) ==
    /\ ret = NoCall
    /\ ret' = [op |-> "call", self |-> 0,
               args |-> [S |-> S, K |-> K, r |-> r, iv |-> iv, tau |-> tau],
               raised |-> "None", value |-> Float(call(S, K, r, iv, tau).price),
               taus |-> << >>]
    /\ UNCHANGED << options, returned, positions, chart, today >>

\* BlackScholes().put(S, K, r, iv, tau)
BsPut(S, K, r, iv, tau) ==
    /\ ret = NoCall
    /\ ret' = [op |-> "put", self |-> 0,
               args |-> [S |-> S, K |-> K, r |-> r, iv |-> iv, tau |-> tau],
               raised |-> "None", value |-> Float(put(S, K, r, iv, tau).price),
               taus |-> << >>]
    /\ UNCHANGED << options, returned, positions, chart, today >>

\* BlackScholes().implied_volatility(option_price, S, K, r, tau, option_type,
\* verbose); probes and success are the choices of the minimizer
ImpliedVolatility(option_price, S, K, r, tau, option_type, verbose, probes, success) ==
    \E r_ \in {implied_volatility(option_price, S, K, r, tau, option_type,
                                  verbose, probes, success)} :
        /\ ret = NoCall
        /\ ret' = [op |-> "implied_volatility", self |-> 0,
                   args |-> [option_price |-> option_price, S |-> S, K |-> K,
                             r |-> r, tau |-> tau, option_type |-> option_type,
                             verbose |-> verbose],
                   raised |-> r_.raised, value |-> r_.value, taus |-> << >>,
                   evals |-> r_.evals, started |-> r_.started,
                   printed |-> r_.printed, res |-> r_.res]
        /\ UNCHANGED << options, returned, positions, chart, today >>

PricingNext ==
    \/ \E S \in PricingSpots, K \in Strikes, r \in PricingRates,
          iv \in PricingVols, tau \in PricingTaus : BsCall(S, K, r, iv, tau)
    \/ \E S \in PricingSpots, K \in Strikes, r \in PricingRates,
          iv \in PricingVols, tau \in PricingTaus : BsPut(S, K, r, iv, tau)
    \/ \E option_price \in OptionPrices, S \in {110000}, K \in Strikes,
          tau \in {19}, option_type \in OptionTypes,
          verbose \in {PyInt(0), PyInt(1)}, probes \in Probes,
          success \in BOOLEAN :
          ImpliedVolatility(option_price, S, K, RISK_FREE_RATE, tau,
                            option_type, verbose, probes, success)

\* one call on a BlackScholes, which keeps no state between calls
SpecPricing == Init /\ [][PricingNext]_vars

\* the lists a caller can pass: fresh lists of the Position objects made so
\* far, a list with something else in it, something that is no list, and the
\* list object the chart holds (the list it was constructed with, or
\* chart.positions itself)
FreshLists ==
    {List(<< >>), List(<< Str(T_buy) >>), Str(T_buy)}
    \cup {List(<< PositionRef(a) >>) : a \in 1 .. Len(positions)}
    \cup {List(<< PositionRef(a), PositionRef(b) >>) :
             a \in 1 .. Len(positions), b \in 1 .. Len(positions)}

PortfolioNext ==
    \/ \E positions_ \in FreshLists, spot_price \in {Float(0 - 1000), Float(0)} :
          NewChart(positions_, spot_price)
    \/ \E option \in {OptionsRef(i) : i \in 1 .. Len(options)} \cup {Str(T_call)},
          position_type \in {Str(T_S), Str(T_buy)} :
          NewPosition(option, position_type)
    \/ \E strike_price \in Strikes, iv \in Vols,
          option_type \in {Str(T_call), Str(T_swap)},
          position_type \in {Str(T_S), Str(T_buy)}, add \in BOOLEAN :
          CreatePosition(strike_price, Str(T_18_01_2023), iv, option_type,
                         position_type, DMY, add)
    \/ \E strike_price \in Strikes, iv \in Vols,
          expiry_dates \in {<< Str(T_18_01_2023), Str(T_18_01_2023) >>,
                            << Str(T_18_01_2023), Str(T_30_02_2023) >>},
          option_types \in {<< Str(T_call) >>, << Str(T_call), Str(T_Put) >>,
                            << Str(T_call), Str(T_swap) >>},
          add \in BOOLEAN :
          CreatePositions(<< strike_price, strike_price >>, expiry_dates,
                          << iv, iv >>, option_types, << Str(T_S), Str(T_S) >>,
                          DMY, add)
    \/ \E positions_ \in FreshLists \cup {HeldList} : AddPositions(positions_)
    \/ \E positions_ \in FreshLists \cup {HeldList} : RemovePositions(positions_)

\* the bookkeeping of a portfolio: the positions it holds and its spot price
SpecPortfolio == Init /\ [][PortfolioNext]_vars

ValuationNext ==
    \/ \E spot_price \in {Float(0 - 1000), Float(0), Float(110000)} :
          NewChart(List(<< >>), spot_price)
    \/ \E spot_price \in {Float(0 - 1000), Float(110000)} :
          SetSpotPrice(spot_price)
    \/ \E strike_price \in Strikes, iv \in Vols, leg \in Legs,
          position_type \in {Str(T_long), Str(T_S)} :
          /\ Len(positions) < MaxLegs
          /\ CreatePosition(strike_price, leg[2], iv, leg[1], position_type,
                            DMY, TRUE)
    \/ \E date \in ChartDateArgs : TotalPremium(Float(110000), date)
    \/ \E date \in ChartDateArgs, range \in Ranges,
          new_spot_price \in {None, Float(0 - 1000), Float(115000)},
          return_fig \in BOOLEAN :
          DrawPayoffChart(date, range, new_spot_price, return_fig)

\* the pricing of a portfolio: total_premium and payoff_chart
SpecValuation == Init /\ [][ValuationNext]_vars

BookNext ==
    \/ NewChart(List(<< >>), Float(110000))
    \/ \E strike_price \in Strikes, iv \in Vols, leg \in Legs,
          position_type \in {Str(T_long), Str(T_S)} :
          CreatePosition(strike_price, leg[2], iv, leg[1], position_type,
                         DMY, TRUE)
    \/ \E i \in 1 .. Len(options) :
          chart # None /\ CalculatePrice(i, Float(115000), None, FALSE)
    \/ \E date \in ChartDateArgs : TotalPremium(Float(110000), date)
    \/ \E date \in ChartDateArgs : DrawPayoffChart(date, Float(0), None, FALSE)

\* a portfolio of several positions with different expiry dates, priced as a
\* whole and contract by contract
SpecBook == Init /\ [][BookNext]_vars

(***************************************************************************)
(* What a date text means, stated without the parser: a text denotes a     *)
(* calendar date when it is that date written in the format, the day and   *)
(* the month with or without a leading zero                                *)
(***************************************************************************)
DigitSeq == << "0", "1", "2", "3", "4", "5", "6", "7", "8", "9" >>

Digits2(n) == << DigitSeq[(n \div 10) + 1], DigitSeq[(n % 10) + 1] >>

Digits4(n) == Digits2(n \div 100) \o Digits2(n % 100)

FieldTexts(tok, date) ==
    IF tok = "%Y" THEN {Digits4(date.year)}
    ELSE IF tok = "%m"
    THEN {Digits2(date.month)} \cup
         (IF date.month < 10 THEN {<< DigitSeq[date.month + 1] >>} ELSE {})
    ELSE IF tok = "%d"
    THEN {Digits2(date.day)} \cup
         (IF date.day < 10 THEN {<< DigitSeq[date.day + 1] >>} ELSE {})
    ELSE {<< tok >>}

RECURSIVE Written(_, _, _)
Written(date, fmt, k) ==
    IF k > Len(fmt) THEN {<< >>}
    ELSE {a \o b : a \in FieldTexts(fmt[k], date), b \in Written(date, fmt, k + 1)}

\* the calendar of 2022 and 2023 (neither is a leap year)
Calendar ==
    {date \in {Date(y, m, d) : y \in 2022 .. 2023, m \in 1 .. 12, d \in 1 .. 31} :
        /\ date.month \in {4, 6, 9, 11} => date.day <= 30
        /\ date.month = 2 => date.day <= 28}

TextArgs ==
    {a \in ExpiryArgs \cup DateArgs \cup ChartExpiryArgs \cup ChartDateArgs :
        a.tag = "str"}

Denoted ==
    [a \in TextArgs, fmt \in Formats |->
        {date \in Calendar : a.s \in Written(date, fmt, 1)}]

\* the dates an argument stands for: none when it is a malformed text
Meant(arg, fmt, now) ==
    IF arg = None THEN {now}
    ELSE IF arg.tag = "date" THEN {arg}
    ELSE Denoted[arg, fmt]

After(a, b) ==
    \/ a.year > b.year
    \/ a.year = b.year /\ a.month > b.month
    \/ a.year = b.year /\ a.month = b.month /\ a.day > b.day

PriceOf(value) == IF value.tag = "tuple" THEN value.price ELSE value

NonNegative(num) ==
    IF num.tag = "ndarray" THEN \A k \in 1 .. Len(num.v) : num.v[k] >= 0
    ELSE num.v >= 0

(***************************************************************************)
(* Claims about one contract                                               *)
(***************************************************************************)
\* C1: calculate_price raises when the valuation date is strictly after the
\* expiry date and returns a price >= 0 when it is on or before it; no
\* negative time to expiry reaches the pricing formulas
C1_ExpiryGuard ==
    ret.op = "calculate_price" =>
        /\ \A d \in Meant(ret.args.date, options[ret.self].date_format, today) :
              IF After(d, options[ret.self].expiry_date)
              THEN ret.raised = "ValueError"
              ELSE ret.raised = "None" /\ NonNegative(PriceOf(ret.value))
        /\ \A k \in 1 .. Len(ret.taus) : ret.taus[k] >= 0

C1_Witness ==
    /\ ret.op = "calculate_price"
    /\ ret.raised = "ValueError"
    /\ \E d \in Meant(ret.args.date, options[ret.self].date_format, today) :
          After(d, options[ret.self].expiry_date)

\* C2: greeks, get_price and time_value raise on a contract no
\* calculate_price has succeeded on, and return a value on any other
C2_AccessorsNeedPrice ==
    ret.op \in {"greeks", "get_price", "time_value"} =>
        IF returned[ret.self] = None
        THEN ret.raised = "ValueError"
        ELSE ret.raised = "None" /\ ret.value # None

C2_Witness ==
    /\ ret.op \in {"greeks", "get_price", "time_value"}
    /\ returned[ret.self] = None
    /\ ret.raised = "ValueError"

\* C3: get_price returns the price the most recent successful
\* calculate_price returned, and greeks the Greeks that same call computed
C3_LastWriteWins ==
    /\ ret.op = "calculate_price" /\ ret.raised = "None" =>
          PriceOf(ret.value) = returned[ret.self].price
    /\ ret.op = "get_price" /\ ret.raised = "None" =>
          ret.value = returned[ret.self].price
    /\ ret.op = "greeks" /\ ret.raised = "None" =>
          ret.value = returned[ret.self].greeks

C3_Witness ==
    /\ ret.op = "get_price"
    /\ ret.raised = "None"
    /\ ret.value = returned[ret.self].price

\* C4: a text that is no date in the contract's format is rejected, as the
\* expiry date of a new Call or Put (no contract is created) and as the
\* valuation date of calculate_price (nothing is priced)
C4_MalformedDate ==
    [][/\ ( /\ ret'.op \in Classes
            /\ ret'.args.expiry_date.tag = "str"
            /\ Denoted[ret'.args.expiry_date, ret'.args.date_format] = {} )
          => ret'.raised = "ValueError" /\ options' = options
       /\ ( /\ ret'.op = "calculate_price"
            /\ ret'.args.date.tag = "str"
            /\ Denoted[ret'.args.date, options'[ret'.self].date_format] = {} )
          => /\ ret'.raised = "ValueError"
             /\ ret'.taus = << >>
             /\ options' = options
      ]_vars

C4_Witness ==
    /\ ret.op \in Classes
    /\ ret.args.expiry_date.tag = "str"
    /\ Denoted[ret.args.expiry_date, ret.args.date_format] = {}
    /\ ret.raised = "ValueError"

\* C5: a calculate_price that fails leaves the cached price and Greeks of
\* the contract as they were
C5_FailureKeepsCache ==
    [][ret'.op = "calculate_price" /\ ret'.raised # "None"
          => options' = options /\ returned' = returned]_vars

C5_Witness ==
    /\ ret.op = "calculate_price"
    /\ ret.raised # "None"
    /\ options[ret.self].price # None
    /\ options[ret.self].price = returned[ret.self].price

(***************************************************************************)
(* Claims about positions and the portfolio                                *)
(***************************************************************************)
\* the direction strings, in lower case
Directions ==
    {<< "l", "o", "n", "g" >>, << "l" >>, << "s", "h", "o", "r", "t" >>,
     << "s" >>}

\* the same text but for the case of its letters
SameButCase(a, b) ==
    /\ Len(a) = Len(b)
    /\ \A k \in 1 .. Len(a) :
          \/ a[k] = b[k]
          \/ \E j \in 1 .. 26 : {a[k], b[k]} = {UpperCase[j], LowerCase[j]}

Recognised(text) == \E d \in Directions : SameButCase(text, d)

\* C6: a Position made with a direction string that is none of long, l,
\* short, s (in any case) raises ValueError at once, directly or through
\* create_position, so every Position that exists has direction +1 or -1
C6_DirectionChecked ==
    /\ ( /\ ret.op \in {"Position", "create_position"}
         /\ ~ Recognised(ret.args.position_type.s) )
       => ret.raised = "ValueError"
    /\ \A k \in 1 .. Len(positions) :
          positions[k].type \in {PyInt(1), PyInt(0 - 1)}

\* the value with its sign changed
Negated(value) ==
    IF value.tag = "ndarray"
    THEN Array([k \in 1 .. Len(value.v) |-> 0 - value.v[k]])
    ELSE [value EXCEPT !.v = 0 - @]

\* the same objects with every position turned from long to short and back
Mirrored ==
    [World EXCEPT !.positions =
        [k \in 1 .. Len(positions) |->
            [positions[k] EXCEPT !.type = PyInt(0 - @.v)]]]

\* C7: total_premium of a portfolio that holds one short position is minus
\* the total_premium, for the same spot price and date, of the portfolio
\* that holds the long position on the same contract
C7_ShortNegatesLong ==
    ( /\ ret.op = "total_premium"
      /\ Len(chart.positions) = 1
      /\ \A k \in 1 .. Len(positions) : positions[k].type # None )
    => LET other == total_premium(Mirrored, ret.args.spot_price,
                                  ret.args.date, today)
       IN  /\ other.raised = ret.raised
           /\ ret.raised = "None" => other.value = Negated(ret.value)

C7_Witness ==
    /\ ret.op = "total_premium"
    /\ Len(chart.positions) = 1
    /\ positions[chart.positions[1]].type = PyInt(0 - 1)
    /\ ret.raised = "None"
    /\ ret.value.v < 0

\* the one position of the chart was priced, in payoff_chart, on TODAY
PricedToday ==
    /\ ret.op = "payoff_chart"
    /\ ret.raised = "None"
    /\ Len(chart.positions) = 1
    /\ Meant(ret.locals.date,
             options[positions[chart.positions[1]].option].date_format,
             today) = {TODAY}

\* C8: for a portfolio of one position, total_premium(spot, date) minus
\* premium_paid, before it is rounded, is 0 where spot is the reference spot
\* price and date is the date premium_paid was computed for
C8_ZeroAtIssue ==
    PricedToday =>
        \A k \in 1 .. Len(ret.locals.Ss.v) :
            ret.locals.Ss.v[k] = chart.spot_price.v
                => ret.locals.unrounded.v[k] = 0

C8_Witness ==
    /\ PricedToday
    /\ ret.locals.premium_paid.v # 0
    /\ \E k \in 1 .. Len(ret.locals.Ss.v) :
          ret.locals.Ss.v[k] = chart.spot_price.v

\* the spot price a call asks the chart to take, None when it asks for none
Assigned(call_) ==
    IF call_.op \in {"PayoffChart", "set_spot_price"} THEN call_.args.spot_price
    ELSE IF call_.op = "payoff_chart" THEN call_.args.new_spot_price
    ELSE None

\* C9: the reference spot price of a PayoffChart is never negative, whatever
\* the constructor, set_spot_price and payoff_chart(new_spot_price) are
\* called with; asking for a negative one raises and leaves it as it was
C9_SpotNeverNegative ==
    [][/\ chart' # None => chart'.spot_price.v >= 0
       /\ ( Assigned(ret') # None /\ Assigned(ret').v < 0 )
          => ret'.raised = "ValueError" /\ chart' = chart]_vars

C9_Witness ==
    /\ ret.op = "payoff_chart"
    /\ ret.args.new_spot_price # None
    /\ ret.args.new_spot_price.v < 0
    /\ ret.raised = "ValueError"
    /\ chart.spot_price.v > 0

\* how often a position is held
Count(held, position) == Cardinality({j \in 1 .. Len(held) : held[j] = position})

\* the positions held, in their order, but for the listed ones
RECURSIVE Others(_, _)
Others(held, listed) ==
    IF held = << >> THEN << >>
    ELSE (IF Head(held) \in listed THEN << >> ELSE << Head(held) >>)
         \o Others(Tail(held), listed)

\* C10: remove_positions with a list of Position objects raises nothing;
\* when the chart holds none of them its positions stay as they were, a
\* listed position that is held is removed, and the other positions keep
\* their order
C10_RemoveListed ==
    [][( /\ ret'.op = "remove_positions"
         /\ resolve_positions(World, ret'.args.positions).raised = "None" )
       => LET listed == {items(World, ret'.args.positions)[k].id :
                            k \in 1 .. Len(items(World, ret'.args.positions))}
          IN  /\ ret'.raised = "None"
              /\ (\A p \in listed : Count(chart.positions, p) = 0)
                    => chart'.positions = chart.positions
              /\ \A p \in listed :
                    Count(chart.positions, p) > 0
                       => Count(chart'.positions, p) < Count(chart.positions, p)
              /\ Others(chart'.positions, listed)
                    = Others(chart.positions, listed)]_vars

\* d is an earlier date than e
Before(d, e) ==
    \/ d.year < e.year
    \/ d.year = e.year /\ d.month < e.month
    \/ d.year = e.year /\ d.month = e.month /\ d.day < e.day

\* the expiry date of the k-th position the chart holds
HeldExpiry(k) == options[positions[chart.positions[k]].option].expiry_date

\* C11: the nearest expiry payoff_chart uses, whether it then returns or
\* raises, is the expiry date of a position the chart holds and no held
\* position expires before it; it is the valuation date when none is given;
\* a chart that holds no position makes payoff_chart raise and return no curve
C11_NearestExpiry ==
    ret.op = "payoff_chart" =>
        IF chart.positions = << >>
        THEN ret.raised = "ValueError" /\ ret.value = None
        ELSE /\ ret.locals # None
             /\ \E k \in 1 .. Len(chart.positions) :
                   HeldExpiry(k) = ret.locals.min_expiry
             /\ \A k \in 1 .. Len(chart.positions) :
                   ~ Before(HeldExpiry(k), ret.locals.min_expiry)
             /\ ( ret.raised = "None" /\ ret.args.date = None )
                   => ret.locals.date = ret.locals.min_expiry

C11_Witness ==
    /\ ret.op = "payoff_chart"
    /\ ret.raised = "None"
    /\ Len(chart.positions) = 2
    /\ Before(HeldExpiry(2), HeldExpiry(1))
    /\ ret.locals.min_expiry = HeldExpiry(2)

\* C12: implied_volatility with an option_type that is neither "call" nor
\* "put" raises ValueError, and it has then not evaluated the pricing function
\* and not started the minimizer
C12_TypeCheckedFirst ==
    ( /\ ret.op = "implied_volatility"
      /\ ret.args.option_type.s \notin {T_call, T_put} )
    => /\ ret.raised = "ValueError"
       /\ ret.evals = << >>
       /\ ~ ret.started

C12_Witness ==
    /\ ret.op = "implied_volatility"
    /\ ret.args.option_type = Str(T_Put)
    /\ ret.raised = "ValueError"

\* C13: an implied_volatility whose minimization did not converge does not
\* raise, and the caller is told so: the value returned carries the success
\* flag along with the estimate, or at the least the call has reported it
C13_FailureSignalled ==
    ( /\ ret.op = "implied_volatility"
      /\ ret.res # None
      /\ ~ ret.res.success )
    => /\ ret.raised = "None"
       /\ \/ ret.value.tag = "tuple"
          \/ ret.printed # << >>

\* S - K exp(-r tau)
Forward(S, K, r, tau) == S - Mul(K, ExpNeg(Mul(r, tau)))

\* C14: call - put = S - K exp(-r tau) for the same S, K, r, sigma and tau > 0,
\* up to the rounding of the arithmetic: one unit for each of the two sums
\* x N(d) + x N(-d)
C14_PutCallParity ==
    ( ret.op \in {"call", "put"} /\ ret.args.tau > 0 )
    => Abs(call(ret.args.S, ret.args.K, ret.args.r, ret.args.iv,
                ret.args.tau).price
           - put(ret.args.S, ret.args.K, ret.args.r, ret.args.iv,
                 ret.args.tau).price
           - Forward(ret.args.S, ret.args.K, ret.args.r, ret.args.tau)) <= 2

C14_Witness ==
    /\ ret.op = "put"
    /\ ret.args.tau > 0
    /\ ret.args.r > 0
    /\ ret.value.v > 0
    /\ ret.value.v = put(ret.args.S, ret.args.K, ret.args.r, ret.args.iv,
                         ret.args.tau).price
    /\ call(ret.args.S, ret.args.K, ret.args.r, ret.args.iv,
            ret.args.tau).price > 0

\* pnl is unrounded, rounded to the nearest whole number and then multiplied
\* by the lot size
RoundedThenScaled(pnl, unrounded) ==
    /\ Len(pnl) = Len(unrounded.v)
    /\ \A k \in 1 .. Len(pnl) :
          /\ pnl[k] % (LOT_SIZE * Q) = 0
          /\ 2 * Abs(pnl[k] \div LOT_SIZE - unrounded.v[k]) <= Q

\* C15: each value of the two PnL curves of payoff_chart is total_premium at
\* the grid point minus premium_paid, rounded to the nearest whole number and
\* then multiplied by 50: a whole multiple of 50
C15_RoundThenScale ==
    ( ret.op = "payoff_chart" /\ ret.raised = "None" )
    => /\ LOT_SIZE = 50
       /\ RoundedThenScaled(ret.locals.fig.pnl, ret.locals.unrounded)
       /\ RoundedThenScaled(ret.locals.fig.pnl_at_expiry, ret.locals.at_expiry)

C15_Witness ==
    /\ ret.op = "payoff_chart"
    /\ ret.raised = "None"
    /\ \E k \in 1 .. Len(ret.locals.fig.pnl) :
          /\ ret.locals.unrounded.v[k] % Q # 0
          /\ ret.locals.fig.pnl[k] # 0
    /\ \E k \in 1 .. Len(ret.locals.fig.pnl_at_expiry) :
          /\ ret.locals.at_expiry.v[k] % Q # 0
          /\ ret.locals.fig.pnl_at_expiry[k] # 0

\* the calls on a PayoffChart that can change it
ChartCalls ==
    {"add_positions", "remove_positions", "create_position",
     "create_positions", "set_spot_price", "payoff_chart"}

\* C16: a call on a PayoffChart that raises ValueError leaves the positions
\* the chart holds and its reference spot price as they were before the call
C16_FailureChangesNothing ==
    [][( ret'.op \in ChartCalls /\ ret'.raised = "ValueError" )
       => /\ chart'.positions = chart.positions
          /\ chart'.spot_price = chart.spot_price]_vars

\* the contract of the k-th position the chart holds
HeldOption(k) == positions[chart.positions[k]].option

\* C17: total_premium and payoff_chart leave the positions the chart holds as
\* they were, and its spot price too unless payoff_chart is given a new one;
\* after a total_premium(spot, date) that returns, get_price and greeks of
\* every contract held return what calculate_price(spot, date) on that
\* contract computes, whatever the contract had cached before
C17_PricingOverwritesCache ==
    [][ret'.op \in {"total_premium", "payoff_chart"}
       => /\ chart'.positions = chart.positions
          /\ positions' = positions
          /\ ( ret'.op = "total_premium" \/ ~ truth(ret'.args.new_spot_price) )
                => chart'.spot_price = chart.spot_price
          /\ ( ret'.op = "total_premium" /\ ret'.raised = "None" )
                => \A k \in 1 .. Len(chart.positions) :
                      LET alone == calculate_price(
                                       options[HeldOption(k)],
                                       ret'.args.spot_price, ret'.args.date,
                                       TRUE, today)
                      IN  /\ get_price(options'[HeldOption(k)])
                                = Return(alone.value.price)
                          /\ greeks(options'[HeldOption(k)])
                                = Return(alone.value.greeks)]_vars

C17_Witness ==
    /\ ret.op = "total_premium"
    /\ ret.raised = "None"
    /\ Len(chart.positions) = 2
    /\ HeldOption(1) # HeldOption(2)
    /\ \A k \in 1 .. 2 :
          /\ options[HeldOption(k)].price
                = calculate_price(options[HeldOption(k)], ret.args.spot_price,
                                  ret.args.date, FALSE, today).value
          /\ options[HeldOption(k)].price
                # calculate_price(options[HeldOption(k)], Float(115000), None,
                                  FALSE, today).value

Spec == SpecContract
====
